---- MODULE Spec2Model ----
(***************************************************************************)
(* A model of the query/command API layer of src/api: the processor base   *)
(* (base.py), the verb mixins (mixins.py) and the views that compose them  *)
(* (views.py).  Every request is handled by its own view instance, which   *)
(* walks through the statements of one verb handler; the statements that   *)
(* call into collaborators (serializer, processor, paginator, permission   *)
(* check, store) are the steps of the model.                               *)
(*                                                                         *)
(* Python values: None is the empty tuple <<>> and a present value v is    *)
(* <<v>>; a dict is a function over its keys; False/True are 0/1 where a   *)
(* value taken from the URL keyword arguments may stand in for them (in    *)
(* Python, False == 0 and True == 1).                                      *)
(***************************************************************************)
EXTENDS Integers, Sequences, FiniteSets, TLC

VARIABLES
    store,      \* the external store: the set of domain objects
    view,       \* per request slot: the view instance (request, kwargs, class attributes)
    pc,         \* per request slot: the statement the handler is at
    proc,       \* per request slot: the processor the handler holds, or None
    local,      \* per request slot: the handler's local variables
    resp,       \* per request slot: what the handler returned or raised
    trace,      \* per request slot: the calls made so far, in order (history)
    nextProc    \* identity handed to the next processor constructed

vars == <<store, view, pc, proc, local, resp, trace, nextProc>>

----------------------------------------------------------------------------
(* Bounds *)

MaxPk == 2

PageSize == 1

MaxProcessors == 2

MaxConcProcessors == 2

----------------------------------------------------------------------------
(* Values *)

Slots == {1, 2}

Users == {"alice", "bob"}

Names == {"a", "b"}

None == <<>>

Some(v) == <<v>>

EmptyDict == [k \in {} |-> ""]

Restrict(f, S) == [k \in (DOMAIN f) \cap S |-> f[k]]

\* Python truthiness of a flag value
Truthy(v) == v # 0

CodeOf(pk) == 10 + pk

Obj(pk, name, owner) == [pk |-> pk, code |-> CodeOf(pk), name |-> name, owner |-> owner]

ObjectUniverse == {Obj(p, n, o) : p \in 1..MaxPk, n \in Names, o \in Users}

\* the stores the layer can meet: the primary key is unique
AllStores ==
    {s \in SUBSET ObjectUniverse : \A a, b \in s : a.pk = b.pk => a = b}

\* Model.objects.all(): the objects ordered by primary key
RECURSIVE OrderByPk(_)
OrderByPk(s) ==
    IF s = {} THEN <<>>
    ELSE LET o == CHOOSE x \in s : \A y \in s : x.pk <= y.pk
         IN  <<o>> \o OrderByPk(s \ {o})

NextPk(s) == IF s = {} THEN 1 ELSE 1 + (CHOOSE p \in {o.pk : o \in s} : \A o \in s : o.pk <= p)

Count(seq, e) == Cardinality({i \in DOMAIN seq : seq[i] = e})

Has(seq, e) == \E i \in DOMAIN seq : seq[i] = e

Before(seq, a, b) == \A i, j \in DOMAIN seq : (seq[i] = a /\ seq[j] = b) => i < j

----------------------------------------------------------------------------
(* Collaborators the layer calls into: serializer, permission check,       *)
(* filter backends, paginator, object lookup.                              *)

PyInt(n) == [t |-> "int", v |-> n]

PyStr(s) == [t |-> "str", v |-> s]

\* Python's str(): an int is rendered in decimal, a str is itself
str(x) == IF x.t = "int" THEN ToString(x.v) ELSE x.v

\* what a serializer's .data can be: a dict of fields, or a list of such dicts
Dict(f) == [kind |-> "dict", fields |-> f, items |-> <<>>]

List(items) == [kind |-> "list", fields |-> EmptyDict, items |-> items]

\* the request serializer declares one field, `name`, required and not blank
DeclaredFields == {"name"}

\* serializer.is_valid(): the errors found in `data`; a required field that is
\* missing is an error unless the serializer is partial
serializer_errors(data, partial) ==
    {e \in {"required", "blank"} :
        \/ e = "required" /\ ~Truthy(partial) /\ "name" \notin DOMAIN data
        \/ e = "blank" /\ "name" \in DOMAIN data /\ data["name"] = ""}

\* serializer.validated_data: the declared fields only
validated_data(data) == Restrict(data, DeclaredFields)

\* serializer.to_representation(instance), by serializer class
to_representation(serializer_class, o) ==
    LET plain == [pk |-> PyInt(o.pk), name |-> PyStr(o.name)]
        url   == [url |-> PyStr("/resources/" \o ToString(o.pk))]
    IN  IF serializer_class = "UrlSerializer" THEN plain @@ url ELSE plain

\* get_serializer(instance).data
serializer_data(serializer_class, o) ==
    IF serializer_class = "ListSerializer"
    THEN List(<<to_representation(serializer_class, o)>>)
    ELSE Dict(to_representation(serializer_class, o))

\* get_serializer(queryset, many=True).data; with instance None it is the
\* serializer's initial value, the empty list
serializer_data_many(serializer_class, queryset) ==
    IF queryset = None THEN List(<<>>)
    ELSE List([i \in DOMAIN queryset[1] |->
                 to_representation(serializer_class, queryset[1][i])])

\* the permission classes of the view: an object is its owner's
has_object_permission(request, o) == o.owner = request.user

\* one filter backend applied to a queryset
backend_filter_queryset(backend, request, queryset) ==
    IF backend = "NameFilter"
    THEN IF "name" \in DOMAIN request.GET
         THEN SelectSeq(queryset, LAMBDA o : o.name = request.GET["name"])
         ELSE queryset
    ELSE SelectSeq(queryset, LAMBDA o : o.owner = request.user)

\* paginator.paginate_queryset(queryset, request): the page the request asks
\* for (the first by default); a page past the end is NotFound
paginator_paginate_queryset(queryset, request) ==
    LET number == IF "page" \in DOMAIN request.GET THEN request.GET["page"] ELSE 1
        first  == (number - 1) * PageSize + 1
        last   == IF number * PageSize < Len(queryset)
                  THEN number * PageSize ELSE Len(queryset)
    IN  IF number > 1 /\ first > Len(queryset)
        THEN [exc |-> "NotFound", page |-> None]
        ELSE [exc |-> "", page |-> Some(SubSeq(queryset, first, last))]

get_object_or_404(queryset, filter_kwargs) ==
    LET matches == SelectSeq(queryset,
                       LAMBDA o : o[filter_kwargs.field] = filter_kwargs.value)
    IN  IF Len(matches) = 0 THEN [exc |-> "Http404", obj |-> None]
        ELSE IF Len(matches) > 1
             THEN [exc |-> "MultipleObjectsReturned", obj |-> None]
             ELSE [exc |-> "", obj |-> Some(matches[1])]

----------------------------------------------------------------------------
(* base.py: BaseAPI *)

\* variant: the context of one view instance serves every request
get_processor_init_shared(r) ==
    [current_user             |-> view[1].request.user,
     url_params               |-> view[1].kwargs,
     query_params             |-> view[1].request.GET,
     filter_queryset          |-> 1,
     paginate_queryset        |-> 1,
     check_object_permissions |-> 1]

get_processor_init(r) ==
    [current_user             |-> view[r].request.user,
     url_params               |-> view[r].kwargs,
     query_params             |-> view[r].request.GET,
     filter_queryset          |-> r,
     paginate_queryset        |-> r,
     check_object_permissions |-> r]

\* a loop over the view's filter backends
RECURSIVE filter_backends_loop(_, _, _)
filter_backends_loop(backends, request, queryset) ==
    IF backends = <<>> THEN queryset
    ELSE filter_backends_loop(Tail(backends), request,
             backend_filter_queryset(Head(backends), request, queryset))

BaseAPI_filter_queryset(r, queryset) ==
    filter_backends_loop(view[r].filter_backends, view[r].request, queryset)

\* the view's paginator, or None
paginator(r) ==
    IF view[r].pagination_class = "" THEN None ELSE Some(view[r].pagination_class)

BaseAPI_paginate_queryset(r, queryset) ==
    IF paginator(r) = None THEN [exc |-> "", page |-> None]
    ELSE paginator_paginate_queryset(queryset, view[r].request)

\* the paginated envelope, or the assertion failing
get_paginated_response(r, data) ==
    IF paginator(r) = None
    THEN [exc |-> "AssertionError", status |-> 0, body |-> None,
          headers |-> EmptyDict, envelope |-> FALSE]
    ELSE [exc |-> "", status |-> 200, body |-> Some(data),
          headers |-> EmptyDict, envelope |-> TRUE]

check_instance_permissions(r, instance) ==
    IF has_object_permission(view[r].request, instance) THEN "" ELSE "PermissionDenied"

----------------------------------------------------------------------------
(* base.py: BaseProcessor and its two kinds *)

\* the constructor: request_data defaults to None, partial_update to False
BaseProcessor(cls, id, kwargs) ==
    [id                        |-> id,
     class                     |-> cls,
     _current_user             |-> kwargs.current_user,
     _request_data             |-> IF "request_data" \in DOMAIN kwargs
                                   THEN kwargs.request_data ELSE None,
     _url_params               |-> kwargs.url_params,
     _query_params             |-> kwargs.query_params,
     _filter_queryset          |-> kwargs.filter_queryset,
     _paginate_queryset        |-> kwargs.paginate_queryset,
     _check_object_permissions |-> kwargs.check_object_permissions,
     _partial_update           |-> IF "partial_update" \in DOMAIN kwargs
                                   THEN kwargs.partial_update ELSE 0]

check_object_permissions(p, o) ==
    check_instance_permissions(p._check_object_permissions, o)

\* variant: the object is returned without the permission check
get_object_unchecked(p, queryset) ==
    LET lookup_url_kwarg == IF p.class.lookup_url_kwarg # ""
                            THEN p.class.lookup_url_kwarg
                            ELSE p.class.lookup_field
    IN  IF lookup_url_kwarg \notin DOMAIN p._url_params
        THEN [exc |-> "AssertionError", obj |-> None, filter_kwargs |-> None,
              events |-> <<>>]
        ELSE
          LET filter_kwargs == [field |-> p.class.lookup_field,
                                value |-> p._url_params[lookup_url_kwarg]]
              found == get_object_or_404(queryset, filter_kwargs)
          IN  [exc |-> found.exc, obj |-> found.obj,
               filter_kwargs |-> Some(filter_kwargs),
               events |-> <<"get_object_or_404">>]

\* variant: the identifier is read from the URL under lookup_field, whatever
\* lookup_url_kwarg says
get_object_by_field(p, queryset) ==
    IF p.class.lookup_field \notin DOMAIN p._url_params
    THEN [exc |-> "AssertionError", obj |-> None, filter_kwargs |-> None,
          events |-> <<>>]
    ELSE
      LET filter_kwargs == [field |-> p.class.lookup_field,
                            value |-> p._url_params[p.class.lookup_field]]
          found == get_object_or_404(queryset, filter_kwargs)
      IN  IF found.exc # ""
          THEN [exc |-> found.exc, obj |-> None,
                filter_kwargs |-> Some(filter_kwargs),
                events |-> <<"get_object_or_404">>]
          ELSE
            LET denied == check_object_permissions(p, found.obj[1])
            IN  [exc |-> denied,
                 obj |-> IF denied = "" THEN found.obj ELSE None,
                 filter_kwargs |-> Some(filter_kwargs),
                 events |-> <<"get_object_or_404", "check_object_permissions">>]

get_object(p, queryset) ==
    LET lookup_url_kwarg == IF p.class.lookup_url_kwarg # ""
                            THEN p.class.lookup_url_kwarg
                            ELSE p.class.lookup_field
    IN  IF lookup_url_kwarg \notin DOMAIN p._url_params
        THEN [exc |-> "AssertionError", obj |-> None, filter_kwargs |-> None,
              events |-> <<>>]
        ELSE
          LET filter_kwargs == [field |-> p.class.lookup_field,
                                value |-> p._url_params[lookup_url_kwarg]]
              found == get_object_or_404(queryset, filter_kwargs)
          IN  IF found.exc # ""
              THEN [exc |-> found.exc, obj |-> None,
                    filter_kwargs |-> Some(filter_kwargs),
                    events |-> <<"get_object_or_404">>]
              ELSE
                LET denied == check_object_permissions(p, found.obj[1])
                IN  [exc |-> denied,
                     obj |-> IF denied = "" THEN found.obj ELSE None,
                     filter_kwargs |-> Some(filter_kwargs),
                     events |-> <<"get_object_or_404", "check_object_permissions">>]

BaseQueryProcessor_filter_queryset(p, queryset) ==
    BaseAPI_filter_queryset(p._filter_queryset, queryset)

BaseQueryProcessor_paginate_queryset(p, queryset) ==
    BaseAPI_paginate_queryset(p._paginate_queryset, queryset)

\* variant: the page is cut first and filtered afterwards
paginate_then_filter(p, queryset) ==
    LET paged == BaseQueryProcessor_paginate_queryset(p, queryset)
    IN  [exc |-> paged.exc,
         value |-> IF paged.page = None THEN None
                   ELSE Some(BaseQueryProcessor_filter_queryset(p, paged.page[1])),
         events |-> <<"paginate_queryset", "filter_queryset">>]

filter_and_paginate_queryset(p, queryset) ==
    LET filtered == BaseQueryProcessor_filter_queryset(p, queryset)
        paged    == BaseQueryProcessor_paginate_queryset(p, filtered)
    IN  [exc |-> paged.exc, value |-> paged.page,
         events |-> <<"filter_queryset", "paginate_queryset">>]

get_queryset(r, kwargs) ==
    BaseProcessor(view[r].queryset_class, nextProc, kwargs @@ get_processor_init(r))

get_command(r, kwargs) ==
    BaseProcessor(view[r].command_class, nextProc, kwargs @@ get_processor_init(r))

----------------------------------------------------------------------------
(* The processors an application derives from the two bases.  A command    *)
(* looks its target up with get_object and changes the store once; a query *)
(* returns one object, or the collection filtered and paginated.           *)

ProcessorClass(name, paginated, lookup_field, lookup_url_kwarg) ==
    [name |-> name, paginated |-> paginated, lookup_field |-> lookup_field,
     lookup_url_kwarg |-> lookup_url_kwarg]

\* processor.execute() on store s; `fault` is the store failing the write
execute(p, s, fault) ==
    LET all  == OrderByPk(s)
        cls  == p.class.name
        data == IF p._request_data = None THEN EmptyDict ELSE p._request_data[1]
        base == [exc |-> "", value |-> None, store |-> s, events |-> <<>>,
                 queryset |-> None, instance |-> None, filter_kwargs |-> None]
        g    == get_object(p, all)
        got  == [base EXCEPT !.exc = g.exc, !.events = g.events,
                             !.queryset = Some(all), !.instance = g.obj,
                             !.filter_kwargs = g.filter_kwargs]
    IN  CASE cls = "CreateCommand" ->
               IF fault THEN [base EXCEPT !.exc = "DomainError"]
               ELSE LET o == Obj(NextPk(s),
                                 IF "name" \in DOMAIN data THEN data["name"] ELSE "",
                                 p._current_user)
                    IN  [base EXCEPT !.value = Some(o), !.store = s \cup {o},
                                     !.events = <<"save">>]
          [] cls = "UpdateCommand" ->
               IF g.exc # "" THEN got
               ELSE IF fault THEN [got EXCEPT !.exc = "DomainError"]
               ELSE LET o   == g.obj[1]
                        new == IF "name" \in DOMAIN data
                               THEN [o EXCEPT !.name = data["name"]] ELSE o
                    IN  [got EXCEPT !.value = Some(new),
                                    !.store = (s \ {o}) \cup {new},
                                    !.events = g.events \o <<"save">>]
          [] cls = "DestroyCommand" ->
               IF g.exc # "" THEN got
               ELSE IF fault THEN [got EXCEPT !.exc = "DomainError"]
               ELSE [got EXCEPT !.value = g.obj, !.store = s \ {g.obj[1]},
                                !.events = g.events \o <<"delete">>]
          [] cls = "RetrieveQuery" ->
               [got EXCEPT !.value = g.obj]
          [] cls = "PaginatedListQuery" ->
               LET fp == filter_and_paginate_queryset(p, all)
               IN  [base EXCEPT !.exc = fp.exc, !.value = fp.value,
                                !.events = fp.events, !.queryset = Some(all)]
          [] OTHER ->
               [base EXCEPT !.value = Some(BaseQueryProcessor_filter_queryset(p, all)),
                            !.events = <<"filter_queryset">>,
                            !.queryset = Some(all)]

----------------------------------------------------------------------------
(* Requests and views *)

Request(method, user, GET, data) ==
    [method |-> method, user |-> user, GET |-> GET, data |-> data]

View(view_class, request, kwargs, pagination_class, filter_backends, queryset_class, command_class, serializer_class, URL_FIELD_NAME) ==
    [view_class |-> view_class, request |-> request, kwargs |-> kwargs,
     pagination_class |-> pagination_class, filter_backends |-> filter_backends,
     queryset_class |-> queryset_class, command_class |-> command_class,
     serializer_class |-> serializer_class, URL_FIELD_NAME |-> URL_FIELD_NAME]

NoClass == ProcessorClass("", TRUE, "pk", "")

NoView == View("", Request("", "", EmptyDict, EmptyDict), EmptyDict, "", <<>>,
               NoClass, NoClass, "", "url")

\* request bodies: `name` absent, present or blank; an undeclared key or not
Bodies ==
    {Restrict([name |-> n, junk |-> "j"], S) :
        n \in {"b", ""}, S \in SUBSET {"name", "junk"}}

\* query strings: a name to filter on, a page number
QueryParams ==
    {Restrict([name |-> "a", page |-> 2], S) : S \in SUBSET {"name", "page"}}

AllKwargs ==
    {[pk |-> p, code |-> CodeOf(c), id |-> i, partial |-> 1] :
        p \in 1..MaxPk, c \in 1..MaxPk, i \in 1..MaxPk}

\* URL keyword arguments of an object route
LookupKwargs ==
    {Restrict(f, S) : f \in AllKwargs,
        S \in {{}, {"pk"}, {"code"}, {"id"}, {"pk", "id"}}}

\* URL keyword arguments of an update route; one route names an argument `partial`
UpdateKwargs ==
    {Restrict(f, S) : f \in AllKwargs, S \in {{}, {"pk"}, {"pk", "partial"}}}

LookupFields == {"pk", "code"}

\* lookup_url_kwarg: "" stands for None (both are false under `or`)
LookupUrlKwargs == {"", "id"}

CreateViews ==
    {View("CreateAPI", Request("POST", u, EmptyDict, d), EmptyDict, "", <<>>,
          NoClass, ProcessorClass("CreateCommand", TRUE, "pk", ""), sc, ufn) :
        u \in Users, d \in Bodies,
        sc \in {"Serializer", "UrlSerializer", "ListSerializer"},
        ufn \in {"url", "pk"}}

ListViews ==
    {View("ListAPI", Request("GET", u, q, EmptyDict), EmptyDict, pg, fb,
          qc, NoClass, "Serializer", "url") :
        u \in Users, q \in QueryParams, pg \in {"", "PageNumberPagination"},
        fb \in {<<>>, <<"NameFilter">>, <<"NameFilter", "OwnerFilter">>},
        qc \in {ProcessorClass("PaginatedListQuery", TRUE, "pk", ""),
                ProcessorClass("ListQuery", FALSE, "pk", "")}}

RetrieveViews ==
    {View("RetrieveAPI", Request("GET", u, EmptyDict, EmptyDict), kw, "", <<>>,
          ProcessorClass("RetrieveQuery", TRUE, lf, lk), NoClass,
          "Serializer", "url") :
        u \in Users, kw \in LookupKwargs, lf \in LookupFields,
        lk \in LookupUrlKwargs}

UpdateViews ==
    {View("UpdateAPI", Request(m, u, EmptyDict, d), kw, "", <<>>,
          NoClass, ProcessorClass("UpdateCommand", TRUE, "pk", ""),
          "Serializer", "url") :
        m \in {"PUT", "PATCH"}, u \in Users, d \in Bodies, kw \in UpdateKwargs}

DestroyViews ==
    {View("DestroyAPI", Request("DELETE", u, EmptyDict, EmptyDict), kw, "", <<>>,
          NoClass, ProcessorClass("DestroyCommand", TRUE, lf, lk),
          "Serializer", "url") :
        u \in Users, kw \in LookupKwargs, lf \in {"pk"},
        lk \in LookupUrlKwargs}

Views == CreateViews \cup ListViews \cup RetrieveViews \cup UpdateViews \cup DestroyViews

\* the handler the framework routes a request to
Handler(v) ==
    CASE v.request.method = "POST"   -> "create"
      [] v.request.method = "PUT"    -> "update"
      [] v.request.method = "PATCH"  -> "partial_update"
      [] v.request.method = "DELETE" -> "destroy"
      [] v.view_class = "ListAPI"    -> "list"
      [] OTHER                       -> "retrieve"

Response(status, body, headers) ==
    [exc |-> "", status |-> status, body |-> body, headers |-> headers,
     envelope |-> FALSE]

Raised(exc) ==
    [exc |-> exc, status |-> 0, body |-> None, headers |-> EmptyDict,
     envelope |-> FALSE]

NoResponse == Response(0, None, EmptyDict)

NoLocal ==
    [kwargs |-> EmptyDict, partial |-> 0, validated_data |-> None,
     queryset |-> None, filter_kwargs |-> None, instance |-> None,
     result |-> None, response_data |-> None, is_paginated |-> FALSE,
     failure |-> ""]

----------------------------------------------------------------------------
(* Initial state: no request in flight, any store *)

Init ==
    /\ store \in AllStores
    /\ view = [r \in Slots |-> NoView]
    /\ pc = [r \in Slots |-> "idle"]
    /\ proc = [r \in Slots |-> None]
    /\ local = [r \in Slots |-> NoLocal]
    /\ resp = [r \in Slots |-> NoResponse]
    /\ trace = [r \in Slots |-> <<>>]
    /\ nextProc = 1

----------------------------------------------------------------------------
(* Steps shared by the handlers *)

Goto(r, label) == pc' = [pc EXCEPT ![r] = label]

Call(r, events) == trace' = [trace EXCEPT ![r] = @ \o events]

\* an exception leaves the handler: nothing of the handler runs after it
Raise(r, exc) ==
    /\ Goto(r, "raised")
    /\ resp' = [resp EXCEPT ![r] = Raised(exc)]
    /\ proc' = [proc EXCEPT ![r] = None]

\* the framework creates a view instance for the request and calls the handler
\* of its method with the URL keyword arguments
Dispatch(r, v, limit) ==
    /\ pc[r] = "idle"
    /\ nextProc <= limit
    /\ v.request.method = "POST" => NextPk(store) <= MaxPk
    /\ view' = [view EXCEPT ![r] = v]
    /\ Goto(r, Handler(v))
    /\ local' = [local EXCEPT ![r].kwargs = v.kwargs]
    /\ UNCHANGED <<store, proc, resp, trace, nextProc>>

\* the handler has returned or raised: the framework answers the client and
\* the view instance, with all the handler held, is dropped
Finish(r) ==
    /\ pc[r] \in {"done", "raised"}
    /\ Goto(r, "idle")
    /\ view' = [view EXCEPT ![r] = NoView]
    /\ local' = [local EXCEPT ![r] = NoLocal]
    /\ resp' = [resp EXCEPT ![r] = NoResponse]
    /\ trace' = [trace EXCEPT ![r] = <<>>]
    /\ UNCHANGED <<store, proc, nextProc>>

\* command.execute() / query.execute(): the result is kept, or the exception
\* leaves the handler
RunExecute(r, fault, next) ==
    LET e == execute(proc[r][1], store, fault)
    IN  /\ store' = e.store
        /\ Call(r, <<"execute">> \o e.events)
        /\ IF e.exc # ""
           THEN /\ Raise(r, e.exc)
                /\ local' = [local EXCEPT ![r].failure = e.exc,
                                          ![r].queryset = e.queryset,
                                          ![r].filter_kwargs = e.filter_kwargs,
                                          ![r].instance = e.instance]
           ELSE /\ Goto(r, next)
                /\ local' = [local EXCEPT ![r].result = e.value,
                                          ![r].queryset = e.queryset,
                                          ![r].filter_kwargs = e.filter_kwargs,
                                          ![r].instance = e.instance]
                /\ UNCHANGED <<resp, proc>>
        /\ UNCHANGED <<view, nextProc>>

----------------------------------------------------------------------------
(* mixins.py: CreateAPIMixin, and CreateAPI.post *)

\* variant: is_valid() without raise_exception, its verdict ignored
create_validate_unraised(r) ==
    /\ pc[r] = "create"
    /\ Call(r, <<"is_valid">>)
    /\ Goto(r, "create_get_command")
    /\ local' = [local EXCEPT ![r].validated_data =
                                Some(validated_data(view[r].request.data))]
    /\ UNCHANGED <<store, view, resp, proc, nextProc>>

create_validate(r) ==
    /\ pc[r] = "create"
    /\ Call(r, <<"is_valid">>)
    /\ IF serializer_errors(view[r].request.data, 0) # {}
       THEN /\ Raise(r, "ValidationError")
            /\ local' = [local EXCEPT ![r].failure = "ValidationError"]
       ELSE /\ Goto(r, "create_get_command")
            /\ local' = [local EXCEPT ![r].validated_data =
                                        Some(validated_data(view[r].request.data))]
            /\ UNCHANGED <<resp, proc>>
    /\ UNCHANGED <<store, view, nextProc>>

\* variant: the command is given the request body as it came
create_get_command_raw(r) ==
    /\ pc[r] = "create_get_command"
    /\ proc' = [proc EXCEPT ![r] =
                  Some(get_command(r, [request_data |-> Some(view[r].request.data)]))]
    /\ nextProc' = nextProc + 1
    /\ Call(r, <<"get_command">>)
    /\ Goto(r, "create_execute")
    /\ UNCHANGED <<store, view, local, resp>>

create_get_command(r) ==
    /\ pc[r] = "create_get_command"
    /\ proc' = [proc EXCEPT ![r] =
                  Some(get_command(r, [request_data |-> local[r].validated_data]))]
    /\ nextProc' = nextProc + 1
    /\ Call(r, <<"get_command">>)
    /\ Goto(r, "create_execute")
    /\ UNCHANGED <<store, view, local, resp>>

create_execute(r) ==
    /\ pc[r] = "create_execute"
    /\ NextPk(store) <= MaxPk
    /\ \E fault \in BOOLEAN : RunExecute(r, fault, "create_serialize")

create_serialize(r) ==
    /\ pc[r] = "create_serialize"
    /\ local' = [local EXCEPT ![r].response_data =
                   Some(serializer_data(view[r].serializer_class, local[r].result[1]))]
    /\ proc' = [proc EXCEPT ![r] = None]
    /\ Call(r, <<"serialize">>)
    /\ Goto(r, "post")
    /\ UNCHANGED <<store, view, resp, nextProc>>

\* variant: the field is looked up under "url", whatever the settings name
get_success_headers_url_only(r, data) ==
    IF data.kind = "dict" /\ "url" \in DOMAIN data.fields
    THEN [Location |-> str(data.fields["url"])]
    ELSE EmptyDict

get_success_headers(r, data) ==
    IF data.kind = "dict" /\ view[r].URL_FIELD_NAME \in DOMAIN data.fields
    THEN [Location |-> str(data.fields[view[r].URL_FIELD_NAME])]
    ELSE EmptyDict

post(r) ==
    /\ pc[r] = "post"
    /\ resp' = [resp EXCEPT ![r] =
                  Response(201, local[r].response_data,
                           get_success_headers(r, local[r].response_data[1]))]
    /\ Goto(r, "done")
    /\ UNCHANGED <<store, view, proc, local, trace, nextProc>>

----------------------------------------------------------------------------
(* mixins.py: ListAPIMixin, and ListAPI.get *)

list_get_queryset(r) ==
    /\ pc[r] = "list"
    /\ proc' = [proc EXCEPT ![r] = Some(get_queryset(r, EmptyDict))]
    /\ nextProc' = nextProc + 1
    /\ Call(r, <<"get_queryset">>)
    /\ Goto(r, "list_execute")
    /\ UNCHANGED <<store, view, local, resp>>

list_execute(r) ==
    /\ pc[r] = "list_execute"
    /\ RunExecute(r, FALSE, "list_serialize")

list_serialize(r) ==
    /\ pc[r] = "list_serialize"
    /\ local' = [local EXCEPT
                   ![r].response_data =
                       Some(serializer_data_many(view[r].serializer_class,
                                                 local[r].result)),
                   ![r].is_paginated = proc[r][1].class.paginated]
    /\ proc' = [proc EXCEPT ![r] = None]
    /\ Call(r, <<"serialize">>)
    /\ Goto(r, "get_list")
    /\ UNCHANGED <<store, view, resp, nextProc>>

get_list(r) ==
    /\ pc[r] = "get_list"
    /\ LET out == IF local[r].is_paginated
                  THEN get_paginated_response(r, local[r].response_data[1])
                  ELSE Response(200, local[r].response_data, EmptyDict)
       IN  /\ resp' = [resp EXCEPT ![r] = out]
           /\ Goto(r, IF out.exc # "" THEN "raised" ELSE "done")
           /\ Call(r, IF local[r].is_paginated
                      THEN <<"get_paginated_response">> ELSE <<>>)
    /\ UNCHANGED <<store, view, proc, local, nextProc>>

----------------------------------------------------------------------------
(* mixins.py: RetrieveAPIMixin, and RetrieveAPI.get *)

retrieve_get_queryset(r) ==
    /\ pc[r] = "retrieve"
    /\ proc' = [proc EXCEPT ![r] = Some(get_queryset(r, EmptyDict))]
    /\ nextProc' = nextProc + 1
    /\ Call(r, <<"get_queryset">>)
    /\ Goto(r, "retrieve_execute")
    /\ UNCHANGED <<store, view, local, resp>>

retrieve_execute(r) ==
    /\ pc[r] = "retrieve_execute"
    /\ RunExecute(r, FALSE, "retrieve_serialize")

retrieve_serialize(r) ==
    /\ pc[r] = "retrieve_serialize"
    /\ local' = [local EXCEPT ![r].response_data =
                   Some(serializer_data(view[r].serializer_class, local[r].result[1]))]
    /\ proc' = [proc EXCEPT ![r] = None]
    /\ Call(r, <<"serialize">>)
    /\ Goto(r, "get_retrieve")
    /\ UNCHANGED <<store, view, resp, nextProc>>

get_retrieve(r) ==
    /\ pc[r] = "get_retrieve"
    /\ resp' = [resp EXCEPT ![r] = Response(200, local[r].response_data, EmptyDict)]
    /\ Goto(r, "done")
    /\ UNCHANGED <<store, view, proc, local, trace, nextProc>>

----------------------------------------------------------------------------
(* mixins.py: UpdateAPIMixin, and UpdateAPI.put / patch *)

partial_update(r) ==
    /\ pc[r] = "partial_update"
    /\ local' = [local EXCEPT ![r].kwargs = [partial |-> 1] @@ @]
    /\ Goto(r, "update")
    /\ UNCHANGED <<store, view, proc, resp, trace, nextProc>>

\* kwargs.pop("partial", False)
pop_partial(kwargs) == IF "partial" \in DOMAIN kwargs THEN kwargs["partial"] ELSE 0

update_validate(r) ==
    /\ pc[r] = "update"
    /\ Call(r, <<"is_valid">>)
    /\ LET partial == pop_partial(local[r].kwargs)
           kwargs  == Restrict(local[r].kwargs, DOMAIN local[r].kwargs \ {"partial"})
       IN  IF serializer_errors(view[r].request.data, partial) # {}
           THEN /\ Raise(r, "ValidationError")
                /\ local' = [local EXCEPT ![r].failure = "ValidationError",
                                          ![r].partial = partial,
                                          ![r].kwargs = kwargs]
           ELSE /\ Goto(r, "update_get_command")
                /\ local' = [local EXCEPT
                               ![r].validated_data =
                                   Some(validated_data(view[r].request.data)),
                               ![r].partial = partial,
                               ![r].kwargs = kwargs]
                /\ UNCHANGED <<resp, proc>>
    /\ UNCHANGED <<store, view, nextProc>>

update_get_command(r) ==
    /\ pc[r] = "update_get_command"
    /\ proc' = [proc EXCEPT ![r] =
                  Some(get_command(r, [request_data   |-> local[r].validated_data,
                                       partial_update |-> local[r].partial]))]
    /\ nextProc' = nextProc + 1
    /\ Call(r, <<"get_command">>)
    /\ Goto(r, "update_execute")
    /\ UNCHANGED <<store, view, local, resp>>

update_execute(r) ==
    /\ pc[r] = "update_execute"
    /\ \E fault \in BOOLEAN : RunExecute(r, fault, "update_serialize")

update_serialize(r) ==
    /\ pc[r] = "update_serialize"
    /\ local' = [local EXCEPT ![r].response_data =
                   Some(serializer_data(view[r].serializer_class, local[r].result[1]))]
    /\ proc' = [proc EXCEPT ![r] = None]
    /\ Call(r, <<"serialize">>)
    /\ Goto(r, "put_patch")
    /\ UNCHANGED <<store, view, resp, nextProc>>

put_patch(r) ==
    /\ pc[r] = "put_patch"
    /\ resp' = [resp EXCEPT ![r] = Response(200, local[r].response_data, EmptyDict)]
    /\ Goto(r, "done")
    /\ UNCHANGED <<store, view, proc, local, trace, nextProc>>

----------------------------------------------------------------------------
(* mixins.py: DestroyAPIMixin, and DestroyAPI.delete *)

\* variant: the command is given the request body and marked partial
destroy_get_command_payload(r) ==
    /\ pc[r] = "destroy"
    /\ proc' = [proc EXCEPT ![r] =
                  Some(get_command(r, [request_data   |-> Some(view[r].request.data),
                                       partial_update |-> 1]))]
    /\ nextProc' = nextProc + 1
    /\ Call(r, <<"get_command">>)
    /\ Goto(r, "destroy_execute")
    /\ UNCHANGED <<store, view, local, resp>>

destroy_get_command(r) ==
    /\ pc[r] = "destroy"
    /\ proc' = [proc EXCEPT ![r] = Some(get_command(r, EmptyDict))]
    /\ nextProc' = nextProc + 1
    /\ Call(r, <<"get_command">>)
    /\ Goto(r, "destroy_execute")
    /\ UNCHANGED <<store, view, local, resp>>

\* the command's result is dropped: destroy returns nothing
destroy_execute(r) ==
    /\ pc[r] = "destroy_execute"
    /\ \E fault \in BOOLEAN :
         LET e == execute(proc[r][1], store, fault)
         IN  /\ store' = e.store
             /\ Call(r, <<"execute">> \o e.events)
             /\ IF e.exc # ""
                THEN /\ Raise(r, e.exc)
                     /\ local' = [local EXCEPT ![r].failure = e.exc,
                                               ![r].queryset = e.queryset,
                                               ![r].filter_kwargs = e.filter_kwargs,
                                               ![r].instance = e.instance]
                ELSE /\ Goto(r, "delete")
                     /\ proc' = [proc EXCEPT ![r] = None]
                     /\ local' = [local EXCEPT ![r].queryset = e.queryset,
                                               ![r].filter_kwargs = e.filter_kwargs,
                                               ![r].instance = e.instance]
                     /\ UNCHANGED resp
    /\ UNCHANGED <<view, nextProc>>

delete(r) ==
    /\ pc[r] = "delete"
    /\ resp' = [resp EXCEPT ![r] = Response(204, local[r].response_data, EmptyDict)]
    /\ Goto(r, "done")
    /\ UNCHANGED <<store, view, proc, local, trace, nextProc>>

----------------------------------------------------------------------------
(* Specifications *)

Handle(r) ==
    \/ create_validate(r) \/ create_get_command(r) \/ create_execute(r)
    \/ create_serialize(r) \/ post(r)
    \/ list_get_queryset(r) \/ list_execute(r) \/ list_serialize(r) \/ get_list(r)
    \/ retrieve_get_queryset(r) \/ retrieve_execute(r) \/ retrieve_serialize(r)
    \/ get_retrieve(r)
    \/ partial_update(r) \/ update_validate(r) \/ update_get_command(r)
    \/ update_execute(r) \/ update_serialize(r) \/ put_patch(r)
    \/ destroy_get_command(r) \/ destroy_execute(r) \/ delete(r)

\* one request at a time, each on a view instance of its own
Next ==
    \/ \E v \in Views : Dispatch(1, v, MaxProcessors)
    \/ Handle(1)
    \/ Finish(1)

Spec == Init /\ [][Next]_vars

\* requests that meet in flight: one route of each kind, two principals
ConcViews ==
    {v \in Views :
        /\ v.request.method # "PUT"
        /\ v.kwargs = (IF v.view_class \in {"CreateAPI", "ListAPI"}
                       THEN EmptyDict ELSE [pk |-> 1])
        /\ v.request.data = (IF v.view_class \in {"CreateAPI", "UpdateAPI"}
                             THEN [name |-> "b"] ELSE EmptyDict)
        /\ v.request.GET = EmptyDict
        /\ v.view_class = "ListAPI" =>
              /\ v.filter_backends = <<"NameFilter", "OwnerFilter">>
              /\ v.pagination_class # ""
              /\ v.queryset_class.paginated
        /\ v.queryset_class.lookup_field = "pk" /\ v.queryset_class.lookup_url_kwarg = ""
        /\ v.command_class.lookup_url_kwarg = ""
        /\ v.serializer_class = "Serializer" /\ v.URL_FIELD_NAME = "url"}

InitConc ==
    /\ Init
    /\ store = {Obj(1, "a", "alice")}

\* requests handled side by side, each on a view instance of its own
NextConc ==
    \E r \in Slots :
        \/ \E v \in ConcViews : Dispatch(r, v, MaxConcProcessors)
        \/ Handle(r)
        \/ Finish(r)

SpecConc == InitConc /\ [][NextConc]_vars

----------------------------------------------------------------------------
(* Properties *)

Finished(r) == pc[r] \in {"done", "raised"}

Range(seq) == {seq[i] : i \in DOMAIN seq}

IsList(r) == view[r].view_class = "ListAPI"

\* a request whose processor went through get_object
ObjectCall(r) ==
    /\ view[r].view_class \in {"RetrieveAPI", "UpdateAPI", "DestroyAPI"}
    /\ Has(trace[r], "execute")

TargetClass(r) ==
    IF view[r].view_class = "RetrieveAPI"
    THEN view[r].queryset_class ELSE view[r].command_class

\* the URL keyword argument the identifier is read from
LookupKey(r) ==
    IF TargetClass(r).lookup_url_kwarg # ""
    THEN TargetClass(r).lookup_url_kwarg ELSE TargetClass(r).lookup_field

\* the objects of the supplied collection that match the identifier
Matching(r) ==
    {o \in Range(local[r].queryset[1]) :
        o[TargetClass(r).lookup_field] = view[r].kwargs[LookupKey(r)]}

\* the body passes validation: `name` is there unless the validation is
\* partial, and is not blank
ValidBody(data, partial) ==
    /\ "name" \in DOMAIN data \/ partial # 0
    /\ "name" \in DOMAIN data => data["name"] # ""

\* C1: the pagination flag list() returns is true exactly when the paginate
\* callback was applied and returned a page, and the GET handler never reaches
\* get_paginated_response on a view whose paginator is None.
C1_FlagTellsPageProduced ==
    \A r \in Slots :
        (IsList(r) /\ Has(trace[r], "serialize")) =>
            /\ local[r].is_paginated =
                  (Has(trace[r], "paginate_queryset") /\ local[r].result # None)
            /\ Has(trace[r], "get_paginated_response") => paginator(r) # None

\* C2: with the lookup key in the URL parameters, get_object ends in NotFound
\* (Http404) without a permission check when nothing matches, in
\* PermissionDenied without an object when the check rejects the match, and
\* otherwise returns the match (which retrieve serializes); the permission
\* check runs at most once, after the lookup.
C2_LookupThenPermission ==
    \A r \in Slots :
        (ObjectCall(r) /\ LookupKey(r) \in DOMAIN view[r].kwargs) =>
            /\ Count(trace[r], "check_object_permissions") <= 1
            /\ Before(trace[r], "get_object_or_404", "check_object_permissions")
            /\ Matching(r) = {} =>
                  /\ pc[r] = "raised" /\ resp[r].exc = "Http404"
                  /\ ~Has(trace[r], "check_object_permissions")
                  /\ local[r].instance = None
            /\ \A o \in Matching(r) :
                  IF o.owner # view[r].request.user
                  THEN /\ pc[r] = "raised" /\ resp[r].exc = "PermissionDenied"
                       /\ Count(trace[r], "check_object_permissions") = 1
                       /\ local[r].instance = None /\ local[r].result = None
                       /\ resp[r].body = None
                  ELSE /\ local[r].instance = Some(o)
                       /\ Count(trace[r], "check_object_permissions") = 1
                       /\ resp[r].exc \notin {"Http404", "PermissionDenied"}
                       /\ (view[r].view_class = "RetrieveAPI" /\ Finished(r)) =>
                             /\ pc[r] = "done"
                             /\ resp[r].body =
                                   Some(serializer_data(view[r].serializer_class, o))

C2_Witness ==
    \E r \in Slots :
        /\ view[r].view_class = "RetrieveAPI" /\ pc[r] = "raised"
        /\ resp[r].exc = "PermissionDenied"
        /\ Has(trace[r], "check_object_permissions")

\* C3: the sequence a list query yields is paginate(filter(source)): filter is
\* applied once to the source, paginate once to what filter returned, in that
\* order, and list() serializes the result as a sequence.
C3_FilterThenPaginate ==
    \A r \in Slots :
        (/\ IsList(r) /\ view[r].queryset_class.name = "PaginatedListQuery"
         /\ Has(trace[r], "execute")) =>
            LET source   == local[r].queryset[1]
                filtered == BaseAPI_filter_queryset(r, source)
                paged    == BaseAPI_paginate_queryset(r, filtered)
            IN  /\ Count(trace[r], "filter_queryset") = 1
                /\ Count(trace[r], "paginate_queryset") = 1
                /\ Before(trace[r], "filter_queryset", "paginate_queryset")
                /\ IF paged.exc # ""
                   THEN pc[r] = "raised" /\ resp[r].exc = paged.exc
                   ELSE local[r].result = paged.page
                /\ Has(trace[r], "serialize") =>
                      local[r].response_data =
                          Some(serializer_data_many(view[r].serializer_class,
                                                    paged.page))

\* filtering first and cutting the page first differ here
C3_Witness ==
    \E r \in Slots :
        /\ IsList(r) /\ view[r].queryset_class.name = "PaginatedListQuery"
        /\ pc[r] = "done"
        /\ "name" \in DOMAIN view[r].request.GET
        /\ local[r].result # None
        /\ Len(local[r].result[1]) > 0
        /\ local[r].result[1][1] # local[r].queryset[1][1]

\* C4: a valid create answers 201 with the serialized result of execute() and
\* the headers {Location: str(value)} when the serialized result has the
\* configured URL field, and no headers when it has not or is not a mapping.
C4_CreatedWithLocation ==
    \A r \in Slots :
        view[r].view_class = "CreateAPI" =>
            /\ (Finished(r) /\ ValidBody(view[r].request.data, 0)
                            /\ local[r].failure # "DomainError") => pc[r] = "done"
            /\ pc[r] = "done" =>
                  LET o   == local[r].result[1]
                      sc  == view[r].serializer_class
                      ufn == view[r].URL_FIELD_NAME
                  IN  /\ resp[r].exc = "" /\ resp[r].status = 201
                      /\ o \in store
                      /\ resp[r].body = Some(serializer_data(sc, o))
                      /\ resp[r].headers =
                            IF sc = "ListSerializer" THEN EmptyDict
                            ELSE IF ufn = "pk"
                                 THEN [Location |-> ToString(o.pk)]
                                 ELSE IF sc = "UrlSerializer"
                                      THEN [Location |-> "/resources/" \o ToString(o.pk)]
                                      ELSE EmptyDict

C4_Witness ==
    \E r \in Slots :
        /\ view[r].view_class = "CreateAPI" /\ pc[r] = "done"
        /\ view[r].URL_FIELD_NAME = "pk"
        /\ resp[r].status = 201
        /\ "Location" \in DOMAIN resp[r].headers

\* C5: destroy constructs the command with no payload and not partial, calls
\* execute() once and returns nothing whatever execute() returned; DELETE
\* answers 204 with an empty body when execute() completes and gives no 204
\* when it fails, as for an identifier that is not in the store.
C5_DestroyOnce ==
    \A r \in Slots :
        view[r].view_class = "DestroyAPI" =>
            /\ proc[r] # None =>
                  /\ proc[r][1]._request_data = None
                  /\ proc[r][1]._partial_update = 0
            /\ pc[r] \in {"delete", "done", "raised"} =>
                  /\ Count(trace[r], "execute") = 1
                  /\ local[r].response_data = None
            /\ pc[r] = "done" =>
                  /\ resp[r].exc = "" /\ resp[r].status = 204 /\ resp[r].body = None
                  /\ local[r].instance # None
                  /\ local[r].instance[1] \notin store
            /\ pc[r] = "raised" =>
                  /\ resp[r].status # 204
                  /\ resp[r].exc = local[r].failure /\ resp[r].exc # ""
            /\ (/\ Finished(r) /\ LookupKey(r) \in DOMAIN view[r].kwargs
                /\ Matching(r) = {}) =>
                  pc[r] = "raised" /\ resp[r].exc = "Http404"

C5_Witness ==
    \E r \in Slots :
        /\ view[r].view_class = "DestroyAPI" /\ pc[r] = "done"
        /\ resp[r].status = 204
        /\ Has(trace[r], "delete")

\* C6: the partial flag of the body validation and the partial_update flag of
\* the command are the same value, true for every PATCH and false for every
\* PUT; a partial update never fails on an omitted required field, a full
\* one does.
C6_PartialOnlyForPatch ==
    \A r \in Slots :
        (view[r].view_class = "UpdateAPI" /\ Has(trace[r], "is_valid")) =>
            /\ proc[r] # None => proc[r][1]._partial_update = local[r].partial
            /\ view[r].request.method = "PATCH" => local[r].partial = 1
            /\ view[r].request.method = "PUT" => local[r].partial = 0
            /\ (local[r].partial # 0 /\ resp[r].exc = "ValidationError") =>
                  "name" \in DOMAIN view[r].request.data
            /\ (local[r].partial = 0 /\ "name" \notin DOMAIN view[r].request.data) =>
                  resp[r].exc = "ValidationError"

\* C7: create and update validate the body, construct the command with the
\* validated data, execute it once and serialize the result, in that order;
\* when validation fails no command is constructed, execute() is not called,
\* nothing is written and the outcome is the ValidationError.
C7_ValidateConstructExecuteSerialize ==
    \A r \in Slots :
        view[r].view_class \in {"CreateAPI", "UpdateAPI"} =>
            LET order == <<"is_valid", "get_command", "execute", "serialize">>
                steps == SelectSeq(trace[r], LAMBDA e : e \in Range(order))
                data  == view[r].request.data
            IN  /\ Len(steps) <= Len(order)
                /\ steps = SubSeq(order, 1, Len(steps))
                /\ pc[r] = "done" => steps = order
                /\ proc[r] # None =>
                      /\ proc[r][1]._request_data = Some(Restrict(data, {"name"}))
                      /\ Has(trace[r], "is_valid")
                /\ (Has(trace[r], "is_valid") /\ ~ValidBody(data, local[r].partial)) =>
                      /\ pc[r] = "raised" /\ resp[r].exc = "ValidationError"
                      /\ trace[r] = <<"is_valid">>
                      /\ proc[r] = None
                /\ (Finished(r) /\ ValidBody(data, local[r].partial)) =>
                      Count(trace[r], "execute") = 1
                /\ Count(trace[r], "save") <= 1
                /\ Has(trace[r], "save") => resp[r].exc = ""

C7_Witness ==
    \E r \in Slots :
        /\ view[r].view_class \in {"CreateAPI", "UpdateAPI"} /\ pc[r] = "done"
        /\ "junk" \in DOMAIN view[r].request.data
        /\ Has(trace[r], "save")

\* C8: no handler recovers from a failure: what validation, lookup, the
\* permission check or execute() raised is the handler's outcome, unchanged;
\* nothing is serialized after it, no response is substituted, no call is
\* made twice.
C8_FailuresPropagate ==
    \A r \in Slots :
        /\ Count(trace[r], "is_valid") <= 1
        /\ Count(trace[r], "execute") <= 1
        /\ Count(trace[r], "get_object_or_404") <= 1
        /\ local[r].failure # "" =>
              /\ pc[r] = "raised"
              /\ resp[r].exc = local[r].failure
              /\ resp[r].status = 0 /\ resp[r].body = None
              /\ local[r].response_data = None
              /\ ~Has(trace[r], "serialize")
        /\ pc[r] = "done" => local[r].failure = "" /\ resp[r].exc = ""
        /\ (/\ view[r].view_class \in {"CreateAPI", "UpdateAPI"}
            /\ Has(trace[r], "is_valid")
            /\ ~ValidBody(view[r].request.data, local[r].partial)) =>
              local[r].failure = "ValidationError"
        /\ (ObjectCall(r) /\ LookupKey(r) \notin DOMAIN view[r].kwargs) =>
              local[r].failure = "AssertionError"
        /\ (ObjectCall(r) /\ LookupKey(r) \in DOMAIN view[r].kwargs) =>
              /\ Matching(r) = {} => local[r].failure = "Http404"
              /\ \A o \in Matching(r) :
                    o.owner # view[r].request.user =>
                        local[r].failure = "PermissionDenied"
        /\ pc[r] = "raised" => resp[r].exc # "" /\ resp[r].status = 0
        /\ (IsList(r) /\ pc[r] = "raised" /\ ~Has(trace[r], "serialize")) =>
              /\ local[r].failure = "NotFound"
              /\ "page" \in DOMAIN view[r].request.GET

C8_Witness ==
    \E r \in Slots :
        /\ pc[r] = "raised" /\ resp[r].exc = "DomainError"
        /\ view[r].view_class = "UpdateAPI"

\* C10: get_object reads the identifier from the URL parameters under
\* lookup_url_kwarg when that is set and under lookup_field otherwise, and
\* matches the collection on lookup_field; when the key is not among the URL
\* parameters it fails an assertion before any lookup or permission check.
C10_LookupKey ==
    \A r \in Slots :
        ObjectCall(r) =>
            IF LookupKey(r) \in DOMAIN view[r].kwargs
            THEN /\ local[r].filter_kwargs =
                       Some([field |-> TargetClass(r).lookup_field,
                             value |-> view[r].kwargs[LookupKey(r)]])
                 /\ Has(trace[r], "get_object_or_404")
                 /\ resp[r].exc # "AssertionError"
            ELSE /\ pc[r] = "raised" /\ resp[r].exc = "AssertionError"
                 /\ local[r].filter_kwargs = None
                 /\ ~Has(trace[r], "get_object_or_404")
                 /\ ~Has(trace[r], "check_object_permissions")

\* the URL names the field but not lookup_url_kwarg
C10_Witness ==
    \E r \in Slots :
        /\ ObjectCall(r) /\ pc[r] = "raised" /\ resp[r].exc = "AssertionError"
        /\ TargetClass(r).lookup_url_kwarg = "id"
        /\ TargetClass(r).lookup_field \in DOMAIN view[r].kwargs

\* the processor a request holds was built from that request's own context
C9_OwnContext ==
    \A r \in Slots :
        /\ proc[r] # None =>
              LET p == proc[r][1]
              IN  /\ p._current_user = view[r].request.user
                  /\ p._url_params = view[r].kwargs
                  /\ p._query_params = view[r].request.GET
                  /\ p._request_data = local[r].validated_data
                  /\ p._partial_update = local[r].partial
                  /\ p._filter_queryset = r
                  /\ p._paginate_queryset = r
                  /\ p._check_object_permissions = r
                  /\ p.id < nextProc
                  /\ \A q \in Slots \ {r} :
                        proc[q] # None => proc[q][1].id # p.id
        /\ pc[r] \in {"idle", "done", "raised", "post", "get_list",
                      "get_retrieve", "put_patch", "delete"} => proc[r] = None

\* a step of one request leaves what the other holds as it was, and neither
\* a processor nor the request context changes while a handler runs
C9_Isolated ==
    \A r \in Slots :
        /\ pc'[r] = pc[r] =>
              /\ view'[r] = view[r] /\ proc'[r] = proc[r]
              /\ local'[r] = local[r] /\ resp'[r] = resp[r]
              /\ trace'[r] = trace[r]
        /\ (proc[r] # None /\ proc'[r] # None) => proc'[r] = proc[r]
        /\ (pc[r] # "idle" /\ pc'[r] # "idle") => view'[r] = view[r]
        /\ (proc[r] = None /\ proc'[r] # None) => proc'[r][1].id = nextProc

\* C9: under any interleaving of requests, each request constructs its own
\* processor from its own context and drops it after execute(); no processor
\* serves two requests, and the context a processor holds is never changed
\* by another request.
C9_FreshProcessorPerRequest == [][C9_Isolated]_vars /\ []C9_OwnContext

C9_Witness ==
    /\ proc[1] # None /\ proc[2] # None
    /\ proc[1][1]._current_user # proc[2][1]._current_user
    /\ pc[1] \in {"update_execute", "destroy_execute"}
    /\ pc[2] \in {"create_execute", "retrieve_execute", "list_execute"}

====
